---- MODULE Spec2Model ----
(***************************************************************************)
(* Property classification and decorator synthesis of the native-class    *)
(* codemod: makeEOProp, the AbstractEOProp constructor and its derived     *)
(* getters, EOSimpleProp (build, typeErrors, buildDecorators) and the      *)
(* decorator import aggregator getDecoratorsToImportSpecs.                 *)
(*                                                                         *)
(* Optional values (`x?: T`, `T | undefined`, `T | null`) are sequences of *)
(* length at most one: None is undefined/null, Some(v) is the value v.     *)
(***************************************************************************)
EXTENDS Integers, Sequences, FiniteSets, TLC

VARIABLES
    options,                       \* Options: classFields and the shared runtimeData
    existingDecoratorImportInfos,  \* local names imported as computed macros
    prop,                          \* the property model under construction / built (None before)
    out,                           \* result of the latest build() on prop
    prevOut,                       \* result of the build() before the latest one
    builds,                        \* number of build() calls on prop
    log,                           \* logger.info entries, in order
    lastLog,                       \* entries written by the latest build()
    errs,                          \* result of the latest read of typeErrors
    prevErrs,                      \* result of the read before the latest one
    reads,                         \* number of reads of typeErrors
    instanceProps,                 \* EOProps.instanceProps of getEmberObjectProps
    existingSpecs,                 \* the caller's DecoratorImportSpecs object
    specs,                         \* value returned by the latest getDecoratorsToImportSpecs
    aggregations                   \* number of aggregator calls

vars == <<options, existingDecoratorImportInfos, prop, out, prevOut,
          builds, log, lastLog, errs, prevErrs, reads, instanceProps,
          existingSpecs, specs, aggregations>>

None == <<>>
Some(v) == <<v>>

\* ---------------------------------------------------------------- bounds
MaxEntries == 2        \* entries of an object literal value
MaxBuilds == 2         \* build() calls on one model
MaxReads == 2          \* reads of typeErrors on one model
MaxProps == 3          \* declarations of one object literal
MaxAggregations == 2   \* aggregator calls on one declaration list

\* ------------------------------------------------------- declarations
ClassDecoratorPropNames ==
    {"tagName", "classNames", "classNameBindings", "attributeBindings", "layout"}

PropNames == ClassDecoratorPropNames \cup {"foo", "queryParams", "actions"}

\* value nodes: type, callee and last argument of a call, number of
\* entries of an object literal, name of an identifier
Value(t, callee, lastArg, entries, name) ==
    [type |-> t, callee |-> callee, lastArg |-> lastArg, entries |-> entries, name |-> name]

PlainValues ==
    {Value("StringLiteral", "none", "none", 0, "none"),
     Value("ArrayExpression", "none", "none", 0, "none"),
     Value("FunctionExpression", "none", "none", 0, "none"),
     Value("Identifier", "none", "none", 0, "layout"),
     Value("Identifier", "none", "none", 0, "tpl")}
    \cup {Value("ObjectExpression", "none", "none", n, "none") : n \in 0..MaxEntries}

CallValues ==
    {Value("CallExpression", "computed", a, 0, "none") :
        a \in {"FunctionExpression", "ObjectExpression", "StringLiteral"}}
    \cup {Value("CallExpression", "fn", "StringLiteral", 0, "none")}

Decorator(name, args) == [name |-> name, args |-> args]

\* computed flag, comments and decorators already on the declaration
DeclExtras ==
    {[computed |-> None, comments |-> None, decorators |-> None],
     [computed |-> Some(FALSE), comments |-> None, decorators |-> Some(<<>>)],
     [computed |-> Some(TRUE), comments |-> Some("c1"),
      decorators |-> Some(<<Decorator("d1", <<>>), Decorator("d2", <<"x">>)>>)]}

Decl(t, n, v, x) ==
    [type |-> t, key |-> [type |-> "Identifier", name |-> n], value |-> v,
     computed |-> x.computed, comments |-> x.comments, decorators |-> x.decorators]

\* EOExpressionProp = EOProperty | EOMethod
Declarations ==
    {Decl("ObjectProperty", n, v, x) :
        n \in PropNames, v \in PlainValues \cup CallValues, x \in DeclExtras}
    \cup {Decl("ObjectMethod", n, Value("ObjectMethod", "none", "none", 0, "none"), x) :
        n \in PropNames, x \in DeclExtras}

\* ------------------------------------------------------- runtime data
ArgsOf(n, args) == [k \in {n} |-> args]

RuntimeDataRecords ==
    [type : {None, Some(""), Some("Component")},
     computedProperties : {None, Some(<<"foo">>)},
     offProperties : {None, Some(ArgsOf("foo", <<"baz">>))},
     overriddenProperties : {None, Some(<<"foo">>)},
     unobservedProperties :
        {None, Some(ArgsOf("foo", <<>>)), Some(ArgsOf("foo", <<"bar">>))}]

RuntimeDatas == {None} \cup {Some(r) : r \in RuntimeDataRecords}

\* JavaScript truthiness of a `string | undefined`
Truthy(s) == s # None /\ s[1] # ""

Includes(list, x) == \E i \in 1..Len(list) : list[i] = x

\* ------------------------------------------- AbstractEOProp (abstract.ts)
name(p) == p.rawProp.key.name

DecoratorArgsOf(n, unobservedProperties, offProperties) ==
    [k \in {d \in {"unobserves", "off"} :
                \/ d = "unobserves" /\ n \in DOMAIN unobservedProperties
                \/ d = "off" /\ n \in DOMAIN offProperties} |->
        IF k = "unobserves" THEN unobservedProperties[n] ELSE offProperties[n]]

\* field initialisers of the class: no decorators, no decorator args,
\* isComputed, isOverridden and runtimeType undefined
EmptyProp(eoProp) ==
    [rawProp |-> eoProp,
     decorators |-> <<>>,
     decoratorArgs |-> [k \in {} |-> <<>>],
     isComputed |-> None,
     isOverridden |-> None,
     runtimeType |-> None]

\* lines 283-304: the body of `if (runtimeData?.type) { ... }`
ReadRuntimeData(eoProp, r) ==
    LET n == eoProp.key.name
        computedProperties == IF r.computedProperties = None THEN <<>>
                              ELSE r.computedProperties[1]
        offProperties == IF r.offProperties = None THEN [k \in {} |-> <<>>]
                         ELSE r.offProperties[1]
        overriddenProperties == IF r.overriddenProperties = None THEN <<>>
                                ELSE r.overriddenProperties[1]
        unobservedProperties == IF r.unobservedProperties = None THEN [k \in {} |-> <<>>]
                                ELSE r.unobservedProperties[1]
    IN [EmptyProp(eoProp) EXCEPT
           !.decorators =
               (IF n \in DOMAIN unobservedProperties
                   THEN <<[name |-> "unobserves"]>> ELSE <<>>)
               \o (IF n \in DOMAIN offProperties
                   THEN <<[name |-> "off"]>> ELSE <<>>),
           !.decoratorArgs = DecoratorArgsOf(n, unobservedProperties, offProperties),
           !.isComputed = IF Includes(computedProperties, n) THEN Some(TRUE) ELSE None,
           !.isOverridden = Some(Includes(overriddenProperties, n)),
           !.runtimeType = r.type]

\* mutant: the metadata is read whenever a record is given, type tag or not
AbstractEOPropAnyRecord(eoProp, rd) ==
    IF rd # None THEN ReadRuntimeData(eoProp, rd[1]) ELSE EmptyProp(eoProp)

AbstractEOProp(eoProp, rd) ==
    IF rd # None /\ Truthy(rd[1].type)
    THEN ReadRuntimeData(eoProp, rd[1])
    ELSE EmptyProp(eoProp)

key(p) == p.rawProp.key

comments(p) == p.rawProp.comments

hasRuntimeData(p) == Truthy(p.runtimeType)

decoratorNames(p) == [i \in 1..Len(p.decorators) |-> p.decorators[i].name]

hasDecorators(p) == Len(p.decorators) > 0

hasUnobservesDecorator(p) == Includes(decoratorNames(p), "unobserves")

hasOffDecorator(p) == Includes(decoratorNames(p), "off")

\* a concrete model: the base fields plus the variant, its sub-kind, its
\* value and the options it was constructed with
Model(variant, subKind, eoProp, opts) ==
    LET base == AbstractEOProp(eoProp, opts.runtimeData)
    IN [variant |-> variant,
        subKind |-> subKind,
        value |-> eoProp.value,
        options |-> opts,
        rawProp |-> base.rawProp,
        decorators |-> base.decorators,
        decoratorArgs |-> base.decoratorArgs,
        isComputed |-> base.isComputed,
        isOverridden |-> base.isOverridden,
        runtimeType |-> base.runtimeType]

type(p) == p.value.type

existingDecorators(p) == p.rawProp.decorators

makeError(p, message) == [prop |-> name(p), message |-> message]

\* ------------------------------------------------ type predicates (ast.ts)
isEOProperty(eoProp) == eoProp.type = "ObjectProperty"

isEOPropertyWithCallExpression(eoProp) ==
    isEOProperty(eoProp) /\ eoProp.value.type = "CallExpression"

isEOMethod(eoProp) == eoProp.type = "ObjectMethod"

isEOPropertyWithFunctionExpression(eoProp) ==
    isEOProperty(eoProp) /\ eoProp.value.type = "FunctionExpression"

isEOPropertyForClassDecorator(eoProp) ==
    isEOProperty(eoProp) /\ eoProp.key.name \in ClassDecoratorPropNames

isEOPropertyForActionsObject(eoProp) ==
    /\ isEOProperty(eoProp)
    /\ eoProp.key.name = "actions"
    /\ eoProp.value.type = "ObjectExpression"

isEOPropertySimple(eoProp) ==
    /\ isEOProperty(eoProp)
    /\ eoProp.value.type \notin {"CallExpression", "FunctionExpression"}

\* ---------------------------------- call-expression disambiguator (index.ts)
makeEOCallExpressionProp(eoProp, infos, opts) ==
    IF eoProp.value.callee \in infos /\ eoProp.value.lastArg = "FunctionExpression"
    THEN Model("ComputedCallExpression", "function", eoProp, opts)
    ELSE IF eoProp.value.callee \in infos /\ eoProp.value.lastArg = "ObjectExpression"
    THEN Model("ComputedCallExpression", "object", eoProp, opts)
    ELSE Model("DecoratedCallExpression", "none", eoProp, opts)

\* ------------------------------------------------- makeEOProp (eo-prop/index.ts)
\* mutant: the isEOMethod branch is missing
makeEOPropNoMethod(eoProp, infos, opts) ==
    IF isEOPropertyWithCallExpression(eoProp)
    THEN makeEOCallExpressionProp(eoProp, infos, opts)
    ELSE IF isEOPropertyWithFunctionExpression(eoProp)
    THEN Model("FunctionExpression", "none", eoProp, opts)
    ELSE IF isEOPropertyForClassDecorator(eoProp)
    THEN Model("ClassDecorator", "none", eoProp, opts)
    ELSE IF isEOPropertyForActionsObject(eoProp)
    THEN Model("ActionsObject", "none", eoProp, opts)
    ELSE IF isEOPropertySimple(eoProp)
    THEN Model("Simple", "none", eoProp, opts)
    ELSE Model("AssertionError", "none", eoProp, opts)

\* mutant: the class-level names are tested before the call expressions
\* that are no known macro
makeEOPropNamesFirst(eoProp, infos, opts) ==
    IF /\ isEOPropertyWithCallExpression(eoProp)
       /\ makeEOCallExpressionProp(eoProp, infos, opts).variant = "ComputedCallExpression"
    THEN makeEOCallExpressionProp(eoProp, infos, opts)
    ELSE IF isEOMethod(eoProp)
    THEN Model("Method", "none", eoProp, opts)
    ELSE IF isEOPropertyWithFunctionExpression(eoProp)
    THEN Model("FunctionExpression", "none", eoProp, opts)
    ELSE IF isEOPropertyForClassDecorator(eoProp)
    THEN Model("ClassDecorator", "none", eoProp, opts)
    ELSE IF isEOPropertyForActionsObject(eoProp)
    THEN Model("ActionsObject", "none", eoProp, opts)
    ELSE IF isEOPropertyWithCallExpression(eoProp)
    THEN makeEOCallExpressionProp(eoProp, infos, opts)
    ELSE IF isEOPropertySimple(eoProp)
    THEN Model("Simple", "none", eoProp, opts)
    ELSE Model("AssertionError", "none", eoProp, opts)

\* the failing assert of the last branch is the result "AssertionError"
makeEOProp(eoProp, infos, opts) ==
    IF isEOPropertyWithCallExpression(eoProp)
    THEN makeEOCallExpressionProp(eoProp, infos, opts)
    ELSE IF isEOMethod(eoProp)
    THEN Model("Method", "none", eoProp, opts)
    ELSE IF isEOPropertyWithFunctionExpression(eoProp)
    THEN Model("FunctionExpression", "none", eoProp, opts)
    ELSE IF isEOPropertyForClassDecorator(eoProp)
    THEN Model("ClassDecorator", "none", eoProp, opts)
    ELSE IF isEOPropertyForActionsObject(eoProp)
    THEN Model("ActionsObject", "none", eoProp, opts)
    ELSE IF isEOPropertySimple(eoProp)
    THEN Model("Simple", "none", eoProp, opts)
    ELSE Model("AssertionError", "none", eoProp, opts)

\* --------------------------------------------------- EOSimpleProp (simple.ts)
createDecoratorWithArgs(decoratorName, args) == Decorator(decoratorName, args)

\* the for loop of buildDecorators from index i on: acc.decorators is the
\* local list, acc.logged the logger.info calls made so far
RECURSIVE buildDecoratorsLoop(_, _, _)
buildDecoratorsLoop(p, i, acc) ==
    IF i > Len(p.decorators)
    THEN acc
    ELSE LET decorator == p.decorators[i]
             decoratorName == decorator.name
         IN IF "args" \in DOMAIN decorator
            THEN buildDecoratorsLoop(p, i + 1,
                    [acc EXCEPT !.decorators =
                        Append(@, createDecoratorWithArgs(decoratorName, decorator.args))])
            ELSE buildDecoratorsLoop(p, i + 1,
                    [acc EXCEPT !.logged =
                        Append(@, [prop |-> name(p), ignored |-> decoratorName])])

NoDecorators == [decorators |-> <<>>, logged |-> <<>>]

\* mutant: a descriptor without args is emitted too, with no arguments
buildDecoratorsKeepIgnored(p) ==
    (IF existingDecorators(p) = None THEN <<>> ELSE existingDecorators(p)[1])
    \o [i \in 1..Len(p.decorators) |->
           createDecoratorWithArgs(p.decorators[i].name,
              IF "args" \in DOMAIN p.decorators[i] THEN p.decorators[i].args ELSE <<>>)]

\* the list buildDecorators returns
buildDecorators(p) ==
    (IF existingDecorators(p) = None THEN <<>> ELSE existingDecorators(p)[1])
    \o buildDecoratorsLoop(p, 1, NoDecorators).decorators

\* mutant: ignored decorators are not logged
buildDecoratorsLogNothing(p) == <<>>

\* the logger.info calls buildDecorators makes
buildDecoratorsLog(p) == buildDecoratorsLoop(p, 1, NoDecorators).logged

\* mutant: the value is kept next to the decorators
buildKeepValue(p) ==
    [type |-> "ClassProperty",
     key |-> key(p),
     value |-> Some(p.value),
     comments |-> comments(p),
     computed |-> IF p.rawProp.computed = None THEN FALSE ELSE p.rawProp.computed[1],
     decorators |-> buildDecorators(p)]

build(p) ==
    [type |-> "ClassProperty",
     key |-> key(p),
     value |-> IF hasDecorators(p) THEN None ELSE Some(p.value),
     comments |-> comments(p),
     computed |-> IF p.rawProp.computed = None THEN FALSE ELSE p.rawProp.computed[1],
     decorators |-> buildDecorators(p)]

ClassFieldsError == "need option '--class-fields=true'"

ObjectValueError ==
    "value is of type object. For more details: eslint-plugin-ember/avoid-leaking-state-in-ember-objects"

\* mutant: queryParams is not exempt from the object value error
typeErrorsNoExemption(p) ==
    (IF ~p.options.classFields THEN <<makeError(p, ClassFieldsError)>> ELSE <<>>)
    \o (IF type(p) = "ObjectExpression" \/ type(p) = "ArrayExpression"
        THEN <<makeError(p, ObjectValueError)>> ELSE <<>>)

typeErrors(p) ==
    (IF ~p.options.classFields THEN <<makeError(p, ClassFieldsError)>> ELSE <<>>)
    \o (IF (type(p) = "ObjectExpression" \/ type(p) = "ArrayExpression")
           /\ name(p) # "queryParams"
        THEN <<makeError(p, ObjectValueError)>> ELSE <<>>)

\* -------------------------------- EOClassDecorator and EOActionsProp surface
classDecoratorName(p) ==
    IF name(p) = "layout" /\ p.value.type = "Identifier" /\ p.value.name = "layout"
    THEN "templateLayout"
    ELSE name(p)

isTagName(p) == classDecoratorName(p) = "tagName"
isClassNames(p) == classDecoratorName(p) = "classNames"
isClassNameBindings(p) == classDecoratorName(p) = "classNameBindings"
isAttributeBindings(p) == classDecoratorName(p) = "attributeBindings"
isLayoutDecorator(p) == classDecoratorName(p) = "layout"
isTemplateLayoutDecorator(p) == classDecoratorName(p) = "templateLayout"

\* number of methods carrying the action annotation that an actions model
\* is realized as: one per entry of the object literal
actionMethods(p) == IF p.variant = "ActionsObject" THEN p.value.entries ELSE 0

\* ------------------------------ getDecoratorsToImportSpecs (parse-helper.ts)
SpecFields ==
    {"action", "classNames", "classNameBindings", "attributeBindings", "layout",
     "templateLayout", "off", "tagName", "unobserves"}

\* one iteration of the for loop
MergeSpecs(specsIn, p) ==
    [action |-> specsIn.action \/ p.variant = "ActionsObject",
     classNames |-> specsIn.classNames \/ (p.variant = "ClassDecorator" /\ isClassNames(p)),
     classNameBindings |->
        specsIn.classNameBindings \/ (p.variant = "ClassDecorator" /\ isClassNameBindings(p)),
     attributeBindings |->
        specsIn.attributeBindings \/ (p.variant = "ClassDecorator" /\ isAttributeBindings(p)),
     layout |-> specsIn.layout \/ (p.variant = "ClassDecorator" /\ isLayoutDecorator(p)),
     templateLayout |->
        specsIn.templateLayout \/ (p.variant = "ClassDecorator" /\ isTemplateLayoutDecorator(p)),
     off |-> specsIn.off \/ hasOffDecorator(p),
     tagName |-> specsIn.tagName \/ (p.variant = "ClassDecorator" /\ isTagName(p)),
     unobserves |-> specsIn.unobserves \/ hasUnobservesDecorator(p)]

\* the for loop from index i on
RECURSIVE SpecsLoop(_, _, _)
SpecsLoop(props, i, specsIn) ==
    IF i > Len(props) THEN specsIn
    ELSE SpecsLoop(props, i + 1, MergeSpecs(specsIn, props[i]))

\* mutant: each model overwrites the flags instead of adding to them
getDecoratorsToImportSpecsOverwrite(props, existing) ==
    IF Len(props) = 0 THEN existing
    ELSE MergeSpecs([f \in SpecFields |-> FALSE], props[Len(props)])

\* mutant: an actions model counts only when it has at least one entry
RECURSIVE getDecoratorsToImportSpecsNonEmptyActions(_, _)
getDecoratorsToImportSpecsNonEmptyActions(props, existing) ==
    IF Len(props) = 0 THEN existing
    ELSE LET rest == getDecoratorsToImportSpecsNonEmptyActions(
                        SubSeq(props, 1, Len(props) - 1), existing)
             last == props[Len(props)]
         IN [MergeSpecs(rest, last) EXCEPT
                !.action = rest.action \/ actionMethods(last) > 0]

getDecoratorsToImportSpecs(props, existing) == SpecsLoop(props, 1, existing)

\* ------------------------------------------------------------ state machine
AllFalse == [f \in SpecFields |-> FALSE]

OptionsChoices == [classFields : BOOLEAN, runtimeData : RuntimeDatas]

InfosChoices == {{}, {"computed"}}

NoModel ==
    /\ prop = None
    /\ out = None
    /\ prevOut = None
    /\ builds = 0
    /\ log = <<>>
    /\ lastLog = <<>>
    /\ errs = None
    /\ prevErrs = None
    /\ reads = 0

NoProps ==
    /\ instanceProps = <<>>
    /\ specs = None
    /\ aggregations = 0

\* one declaration: classified, then queried and built
Init ==
    /\ options \in OptionsChoices
    /\ existingDecoratorImportInfos \in InfosChoices
    /\ existingSpecs = AllFalse
    /\ NoModel
    /\ NoProps

MakeEOProp ==
    /\ prop = None
    /\ \E eoProp \in Declarations :
          prop' = Some(makeEOProp(eoProp, existingDecoratorImportInfos, options))
    /\ UNCHANGED <<options, existingDecoratorImportInfos, out, prevOut, builds, log,
                   lastLog, errs, prevErrs, reads, instanceProps, existingSpecs,
                   specs, aggregations>>

Build ==
    /\ prop # None
    /\ prop[1].variant = "Simple"
    /\ builds < MaxBuilds
    /\ prevOut' = out
    /\ out' = Some(build(prop[1]))
    /\ lastLog' = buildDecoratorsLog(prop[1])
    /\ log' = log \o buildDecoratorsLog(prop[1])
    /\ builds' = builds + 1
    /\ UNCHANGED <<options, existingDecoratorImportInfos, prop, errs, prevErrs, reads,
                   instanceProps, existingSpecs, specs, aggregations>>

ReadTypeErrors ==
    /\ prop # None
    /\ prop[1].variant = "Simple"
    /\ reads < MaxReads
    /\ prevErrs' = errs
    /\ errs' = Some(typeErrors(prop[1]))
    /\ reads' = reads + 1
    /\ UNCHANGED <<options, existingDecoratorImportInfos, prop, out, prevOut, builds,
                   log, lastLog, instanceProps, existingSpecs, specs, aggregations>>

Next == MakeEOProp \/ Build \/ ReadTypeErrors

Spec == Init /\ [][Next]_vars

\* one object literal: its declarations classified in source order, then
\* the decorator imports aggregated
AggDeclarations ==
    {Decl("ObjectProperty", n, v, [computed |-> None, comments |-> None, decorators |-> None]) :
        n \in {"foo"}, v \in {Value("StringLiteral", "none", "none", 0, "none")}}
    \cup {Decl("ObjectProperty", "actions",
               Value("ObjectExpression", "none", "none", n, "none"),
               [computed |-> None, comments |-> None, decorators |-> None]) :
            n \in {0, MaxEntries}}
    \cup {Decl("ObjectProperty", n, Value("ArrayExpression", "none", "none", 0, "none"),
               [computed |-> None, comments |-> None, decorators |-> None]) :
            n \in {"classNames", "classNameBindings", "attributeBindings"}}
    \cup {Decl("ObjectProperty", "tagName", Value("StringLiteral", "none", "none", 0, "none"),
               [computed |-> None, comments |-> None, decorators |-> None])}
    \cup {Decl("ObjectProperty", "layout", Value("Identifier", "none", "none", 0, n),
               [computed |-> None, comments |-> None, decorators |-> None]) :
            n \in {"layout", "tpl"}}

AggRuntimeDatas ==
    {Some([type |-> Some("Component"), computedProperties |-> None,
           offProperties |-> None, overriddenProperties |-> None,
           unobservedProperties |-> Some(ArgsOf("foo", <<>>))]),
     Some([type |-> Some("Component"), computedProperties |-> None,
           offProperties |-> Some(ArgsOf("foo", <<"baz">>)), overriddenProperties |-> None,
           unobservedProperties |-> None])}

ExistingSpecsChoices ==
    {AllFalse,
     [AllFalse EXCEPT !.classNames = TRUE, !.tagName = TRUE]}

InitAgg ==
    /\ options \in [classFields : {TRUE}, runtimeData : AggRuntimeDatas]
    /\ existingDecoratorImportInfos = {"computed"}
    /\ existingSpecs \in ExistingSpecsChoices
    /\ NoModel
    /\ NoProps

\* getEmberObjectProps maps makeEOProp over the properties, one at a time
GetEmberObjectProp ==
    /\ aggregations = 0
    /\ Len(instanceProps) < MaxProps
    /\ \E eoProp \in AggDeclarations :
          instanceProps' =
             Append(instanceProps,
                    makeEOProp(eoProp, existingDecoratorImportInfos, options))
    /\ UNCHANGED <<options, existingDecoratorImportInfos, prop, out, prevOut, builds,
                   log, lastLog, errs, prevErrs, reads, existingSpecs, specs,
                   aggregations>>

\* the first call aggregates onto the caller's specs, a later one onto the
\* previous result
Aggregate ==
    /\ aggregations < MaxAggregations
    /\ specs' = Some(getDecoratorsToImportSpecs(
                        instanceProps,
                        IF specs = None THEN existingSpecs ELSE specs[1]))
    /\ aggregations' = aggregations + 1
    /\ UNCHANGED <<options, existingDecoratorImportInfos, prop, out, prevOut, builds,
                   log, lastLog, errs, prevErrs, reads, instanceProps, existingSpecs>>

NextAgg == GetEmberObjectProp \/ Aggregate

SpecAgg == InitAgg /\ [][NextAgg]_vars

\* ------------------------------------------------------------------ claims
Variants ==
    {"ComputedCallExpression", "Method", "FunctionExpression", "ClassDecorator",
     "ActionsObject", "DecoratedCallExpression", "Simple"}

KnownMacroCall(d) ==
    /\ d.value.type = "CallExpression"
    /\ d.value.callee \in existingDecoratorImportInfos
    /\ d.value.lastArg \in {"FunctionExpression", "ObjectExpression"}

\* a shape none of the special forms matches
Unrecognized(d) ==
    /\ d.type = "ObjectProperty"
    /\ ~KnownMacroCall(d)
    /\ d.value.type # "FunctionExpression"
    /\ d.key.name \notin ClassDecoratorPropNames
    /\ ~(d.key.name = "actions" /\ d.value.type = "ObjectExpression")

\* C1: makeEOProp is total: every declaration yields a model of exactly one
\* of the seven variants, the assert of the last branch never fails, and a
\* declaration that no special form matches becomes Simple or
\* DecoratedCallExpression.
C1_ClassificationTotal ==
    prop # None =>
        /\ prop[1].variant \in Variants
        /\ prop[1].variant # "AssertionError"
        /\ Unrecognized(prop[1].rawProp) =>
              prop[1].variant \in {"Simple", "DecoratedCallExpression"}

C1_Witness ==
    /\ prop # None
    /\ prop[1].rawProp.type = "ObjectProperty"
    /\ prop[1].rawProp.key.name = "actions"
    /\ prop[1].rawProp.value.type = "Identifier"
    /\ prop[1].variant = "Simple"

\* C2 as stated: a class-level behaviour name whose value is a call that is
\* no known macro is classified ClassDecorator (steps 2-5 are tried before
\* the generic call).
C2_GenericCallTriesNamesFirst ==
    (/\ prop # None
     /\ prop[1].rawProp.type = "ObjectProperty"
     /\ prop[1].rawProp.key.name \in ClassDecoratorPropNames
     /\ prop[1].rawProp.value.type = "CallExpression"
     /\ ~KnownMacroCall(prop[1].rawProp))
        => prop[1].variant = "ClassDecorator"

\* C2 amended: first match wins in the order (1) any call expression, which
\* is ComputedCallExpression for a known macro whose last argument is a
\* function or an object and DecoratedCallExpression otherwise, (2) method,
\* (3) function expression, (4) class-level behaviour name, (5) `actions`
\* with an object value, (6) Simple; so a class-level behaviour name whose
\* value is a call is never a ClassDecorator.
C2_DecisionOrder ==
    prop # None =>
        LET d == prop[1].rawProp
            v == prop[1].variant
            isCall == d.type = "ObjectProperty" /\ d.value.type = "CallExpression"
            isMethod == d.type = "ObjectMethod"
            isFunction == d.type = "ObjectProperty" /\ d.value.type = "FunctionExpression"
            isClassLevel == d.key.name \in ClassDecoratorPropNames
            isActions == d.key.name = "actions" /\ d.value.type = "ObjectExpression"
        IN /\ (v = "ComputedCallExpression") = KnownMacroCall(d)
           /\ (v = "DecoratedCallExpression") = (isCall /\ ~KnownMacroCall(d))
           /\ (v = "Method") = isMethod
           /\ (v = "FunctionExpression") = isFunction
           /\ (v = "ClassDecorator") =
                 (~isCall /\ ~isMethod /\ ~isFunction /\ isClassLevel)
           /\ (v = "ActionsObject") =
                 (~isCall /\ ~isMethod /\ ~isFunction /\ ~isClassLevel /\ isActions)
           /\ (v = "Simple") =
                 (~isCall /\ ~isMethod /\ ~isFunction /\ ~isClassLevel /\ ~isActions)

C2_Witness ==
    /\ prop # None
    /\ prop[1].rawProp.key.name = "tagName"
    /\ prop[1].rawProp.value.type = "CallExpression"
    /\ ~KnownMacroCall(prop[1].rawProp)
    /\ prop[1].variant = "DecoratedCallExpression"

\* the record carries a type tag (a non-empty type string)
HasTypeTag(rd) == rd # None /\ rd[1].type # None /\ rd[1].type[1] # ""

\* C3: a model constructed from metadata that is absent or has no type tag
\* has no runtime data, no synthesized decorators, no decorator args and
\* falsy isComputed and isOverridden, whatever the other metadata fields
\* hold; hasRuntimeData is true exactly when the record carries a type tag.
C3_NoTypeNoRuntimeData ==
    prop # None =>
        LET p == prop[1] IN
        /\ ~HasTypeTag(options.runtimeData) =>
              /\ ~hasRuntimeData(p)
              /\ p.decorators = <<>>
              /\ ~hasDecorators(p)
              /\ ~hasOffDecorator(p)
              /\ ~hasUnobservesDecorator(p)
              /\ DOMAIN p.decoratorArgs = {}
              /\ p.isComputed # Some(TRUE)
              /\ p.isOverridden # Some(TRUE)
        /\ hasRuntimeData(p) = HasTypeTag(options.runtimeData)

C3_Witness ==
    /\ prop # None
    /\ name(prop[1]) = "foo"
    /\ options.runtimeData # None
    /\ options.runtimeData[1].type = None
    /\ options.runtimeData[1].unobservedProperties # None
    /\ options.runtimeData[1].offProperties # None
    /\ options.runtimeData[1].computedProperties # None
    /\ options.runtimeData[1].overriddenProperties # None
    /\ ~hasRuntimeData(prop[1])
    /\ prop[1].decorators = <<>>

\* the number of indexes of seq whose element satisfies Test
Count(seq, Test(_)) == Cardinality({i \in 1..Len(seq) : Test(seq[i])})

\* C4, on metadata that carries a type tag: when unobservedProperties
\* contains the declaration's name, hasUnobservesDecorator is true and the
\* member built from the Simple model carries exactly one `unobserves`
\* decorator, whose arguments are the map entry's list.
C4_UnobservesDecoratorBuilt ==
    (/\ prop # None
     /\ builds >= 1
     /\ HasTypeTag(options.runtimeData)
     /\ options.runtimeData[1].unobservedProperties # None
     /\ name(prop[1]) \in DOMAIN options.runtimeData[1].unobservedProperties[1])
        => LET IsUnobserves(d) == d.name = "unobserves"
               entry == options.runtimeData[1].unobservedProperties[1][name(prop[1])]
           IN /\ hasUnobservesDecorator(prop[1])
              /\ Count(out[1].decorators, IsUnobserves) = 1
              /\ \E i \in 1..Len(out[1].decorators) :
                    out[1].decorators[i] = Decorator("unobserves", entry)

\* the capability of model p that the flag f of the import specs stands for
Capability(p, f) ==
    CASE f = "action" -> p.variant = "ActionsObject"
      [] f = "off" -> Includes(decoratorNames(p), "off")
      [] f = "unobserves" -> Includes(decoratorNames(p), "unobserves")
      [] f = "templateLayout" ->
            /\ p.variant = "ClassDecorator"
            /\ name(p) = "layout"
            /\ p.value.type = "Identifier" /\ p.value.name = "layout"
      [] f = "layout" ->
            /\ p.variant = "ClassDecorator"
            /\ name(p) = "layout"
            /\ ~(p.value.type = "Identifier" /\ p.value.name = "layout")
      [] OTHER -> p.variant = "ClassDecorator" /\ name(p) = f

Orders(n) ==
    {f \in [1..n -> 1..n] : \A i, j \in 1..n : f[i] = f[j] => i = j}

Permuted(seq, f) == [i \in 1..Len(seq) |-> seq[f[i]]]

\* C5: the aggregator is an OR fold: each flag of the result is the
\* existing flag or the capability of some model; the result is the same
\* for every order of the models, aggregating a concatenation equals
\* aggregating its parts in turn, aggregating the same models onto the
\* result changes nothing, a flag set in the existing specs stays set, and
\* what a call returns is this fold, also when it is a second call on its
\* own result.
C5_AggregatorIsOrFold ==
    LET props == instanceProps
        n == Len(instanceProps)
        once == getDecoratorsToImportSpecs(props, existingSpecs)
    IN /\ \A f \in SpecFields :
             once[f] = (existingSpecs[f] \/ \E i \in 1..n : Capability(props[i], f))
       /\ \A perm \in Orders(n) :
             getDecoratorsToImportSpecs(Permuted(props, perm), existingSpecs) = once
       /\ \A k \in 0..n :
             getDecoratorsToImportSpecs(
                SubSeq(props, k + 1, n),
                getDecoratorsToImportSpecs(SubSeq(props, 1, k), existingSpecs)) = once
       /\ getDecoratorsToImportSpecs(props, once) = once
       /\ \A f \in SpecFields : existingSpecs[f] => once[f]
       /\ specs # None =>
             \A f \in SpecFields :
                specs[1][f] = (existingSpecs[f] \/ \E i \in 1..n : Capability(props[i], f))

C5_Witness ==
    /\ aggregations >= 2
    /\ Len(instanceProps) >= 2
    /\ instanceProps[1].variant = "ActionsObject"
    /\ instanceProps[2].variant = "ClassDecorator"
    /\ hasOffDecorator(instanceProps[Len(instanceProps)])
    /\ existingSpecs.tagName
    /\ specs[1].action /\ specs[1].off /\ specs[1].tagName
    /\ ~specs[1].unobserves

\* C6 as stated: the aggregator turns `action` on for an actions model only
\* when the model is realized as at least one method.
C6_ActionOnlyForRealizedMethods ==
    (specs # None /\ specs[1].action /\ ~existingSpecs.action)
        => \E i \in 1..Len(instanceProps) : actionMethods(instanceProps[i]) >= 1

\* C6 amended: the aggregator turns `action` on for every actions model,
\* also one that expands to no method: the flag is the existing flag or
\* the presence of an actions model, whatever the number of its entries.
C6_ActionForEveryActionsModel ==
    specs # None =>
        specs[1].action =
            (existingSpecs.action
                \/ \E i \in 1..Len(instanceProps) : instanceProps[i].variant = "ActionsObject")

C6_Witness ==
    /\ specs # None
    /\ ~existingSpecs.action
    /\ specs[1].action
    /\ \E i \in 1..Len(instanceProps) : instanceProps[i].variant = "ActionsObject"
    /\ \A i \in 1..Len(instanceProps) : actionMethods(instanceProps[i]) = 0

NoExistingDecorators(p) ==
    p.rawProp.decorators = None \/ p.rawProp.decorators = Some(<<>>)

\* C7: the member built from a Simple model is a class property with the
\* declaration's key, comments and computed flag; its value is null exactly
\* when the model has decorators and the declaration's value otherwise; with
\* no runtime metadata and no decorators the member has the declaration's
\* key and value and no decorators.
C7_SimpleBuild ==
    builds >= 1 =>
        LET p == prop[1]
            member == out[1]
        IN /\ member.type = "ClassProperty"
           /\ member.key = p.rawProp.key
           /\ member.comments = p.rawProp.comments
           /\ member.computed = (p.rawProp.computed = Some(TRUE))
           /\ (member.value = None) = hasDecorators(p)
           /\ ~hasDecorators(p) => member.value = Some(p.rawProp.value)
           /\ (options.runtimeData = None /\ NoExistingDecorators(p)) =>
                 /\ member.key = p.rawProp.key
                 /\ member.value = Some(p.rawProp.value)
                 /\ member.decorators = <<>>

C7_Witness ==
    /\ builds >= 1
    /\ hasDecorators(prop[1])
    /\ out[1].value = None
    /\ out[1].key.name = "foo"
    /\ out[1].computed

IsLiteralValue(p) == p.value.type \in {"ObjectExpression", "ArrayExpression"}

\* C8: with the class-field option off, an object or array literal not
\* named queryParams has a non-empty typeErrors that holds the message
\* naming the missing option; a literal named queryParams gets no
\* object-value error; a second read returns the same list as the first;
\* and build() returns a member whatever the errors are.
C8_TypeErrorsAdvisory ==
    reads >= 1 =>
        LET p == prop[1]
            list == errs[1]
        IN /\ (~options.classFields /\ IsLiteralValue(p) /\ name(p) # "queryParams") =>
                 /\ list # <<>>
                 /\ \E i \in 1..Len(list) :
                       list[i] = [prop |-> name(p), message |-> ClassFieldsError]
           /\ (IsLiteralValue(p) /\ name(p) = "queryParams") =>
                 \A i \in 1..Len(list) : list[i].message # ObjectValueError
           /\ reads >= 2 => prevErrs = errs
           /\ builds >= 1 => out # None /\ out[1].type = "ClassProperty"

C8_Witness ==
    /\ reads >= 2
    /\ builds >= 1
    /\ ~options.classFields
    /\ name(prop[1]) = "foo"
    /\ prop[1].value.type = "ObjectExpression"
    /\ Len(errs[1]) = 2
    /\ out # None

HasArgs(d) == "args" \in DOMAIN d

HasNoArgs(d) == "args" \notin DOMAIN d

\* C9: in the member built from a Simple model, the decorators of the
\* source declaration come first, in their order, followed by one decorator
\* for each synthesized descriptor that carries args; a descriptor without
\* args is not emitted and the build writes exactly one log entry for it,
\* naming the property and the decorator.
C9_IgnoredDecoratorsLogged ==
    builds >= 1 =>
        LET p == prop[1]
            existing == IF p.rawProp.decorators = None THEN <<>>
                        ELSE p.rawProp.decorators[1]
            emitted == out[1].decorators
            synthesized == SubSeq(emitted, Len(existing) + 1, Len(emitted))
        IN /\ Len(emitted) >= Len(existing)
           /\ SubSeq(emitted, 1, Len(existing)) = existing
           /\ Len(synthesized) = Count(p.decorators, HasArgs)
           /\ Len(lastLog) = Count(p.decorators, HasNoArgs)
           /\ \A i \in 1..Len(p.decorators) :
                 LET d == p.decorators[i]
                     Names(e) == e.name = d.name
                     Logs(e) == e = [prop |-> name(p), ignored |-> d.name]
                 IN IF HasArgs(d)
                    THEN Count(synthesized, Names) = 1 /\ Count(lastLog, Logs) = 0
                    ELSE Count(synthesized, Names) = 0 /\ Count(lastLog, Logs) = 1

C9_Witness ==
    /\ builds >= 1
    /\ Len(prop[1].decorators) = 2
    /\ Len(lastLog) = 2
    /\ Len(out[1].decorators) = 2
    /\ out[1].decorators[1].name = "d1"

====
